---- MODULE Spec2Model ----
(***************************************************************************)
(* A model of the schema-driven serialization core of shapez.io            *)
(* (savegame/serialization.js): the per-class schema cache, the generic    *)
(* engine (deserializeSchema, verifySchema) and schema extension.          *)
(*                                                                         *)
(* The specifications share the module, one per group of operations:     *)
(*   SpecCache   BasicSerializableObject.getCachedSchema                   *)
(*   SpecEngine  deserializeSchema and verifySchema                        *)
(*   SpecExtend  extendSchema                                              *)
(*   SpecSerialize  serializeSchema, and reading back what it wrote        *)
(*   SpecSound   SoundInterface's music playback                           *)
(*   SpecHub     HubGoals: deliveries, goals and upgrades                  *)
(*   SpecLogic   GameLogic: placing and deleting buildings                 *)
(* Each leaves the variables of the other groups at their initial values.  *)
(***************************************************************************)
EXTENDS Integers, Sequences, FiniteSets, TLC

VARIABLES
    \* ---- schema cache ----
    G_IS_DEV,           \* TRUE: development build (dev:start blocks compiled in)
    getId,              \* the class identifier each class's static getId() returns
    globalSchemaCache,  \* class identifier -> cached Schema instance (NoEntry: none)
    classnamesCache,    \* dev only: class identifier -> class that claimed it
    schemasBuilt,       \* number of Schema instances getSchema() has constructed
    getSchemaRuns,      \* class identifier -> number of getSchema() runs made for it
    calls,              \* history of getCachedSchema calls, oldest first
    \* ---- generic engine ----
    schema,             \* the Schema walked: sequence of [key, type], in for-in order
    data,               \* the raw payload handed to the engine
    obj,                \* the live object deserialized into: field -> value
    lastOp,             \* the engine call made last, with what it did and returned
    \* ---- schema extension ----
    base,               \* extendSchema's first argument
    newOne,             \* extendSchema's second argument
    extended,           \* what the last extendSchema call returned, with its log
    \* ---- serializeSchema ----
    mergeWith,          \* the map serializeSchema merges into: key -> raw value
    serialized,         \* the serializeSchema call made last, with what it did
    restored,           \* the object a payload written by serializeSchema was read into
    \* ---- SoundInterface ----
    currentMusic,       \* this.currentMusic: null, undefined or a music instance
    playing,            \* music instance -> whether it is playing
    pageIsVisible,      \* this.pageIsVisible
    musicMuted,         \* this.musicMuted
    soundLast,          \* the SoundInterface call made last, with what it did
    \* ---- HubGoals ----
    UPGRADES,           \* the upgrade table: upgrade id -> tiers
    level,              \* this.level
    gainedRewards,      \* this.gainedRewards: reward -> times gained (0: not gained)
    storedShapes,       \* this.storedShapes: shape hash -> <<amount>>, or <<>> if absent
    upgradeLevels,      \* this.upgradeLevels: upgrade id -> level (0: none bought)
    upgradeImprovements, \* this.upgradeImprovements: upgrade id -> improvement
    currentGoal,        \* this.currentGoal
    delivered,          \* how many shapes were delivered so far
    hubLast,            \* the HubGoals call made last, with the state it found
    \* ---- GameLogic ----
    tileContents,       \* root.map: tile -> uid of the entity on it, or NoEntity
    entities,           \* root.entityMgr: uid -> the entity, or Destroyed
    nextUid,            \* uid the next entity created gets
    logicLast           \* the GameLogic call made last, with the state it found

cacheVars == <<G_IS_DEV, getId, globalSchemaCache, classnamesCache, schemasBuilt,
               getSchemaRuns, calls>>
engineVars == <<schema, data, obj, lastOp>>
extendVars == <<base, newOne, extended>>
serializeVars == <<mergeWith, serialized, restored>>
serializationVars == <<cacheVars, engineVars, extendVars, serializeVars>>
soundVars == <<currentMusic, playing, pageIsVisible, musicMuted, soundLast>>
hubVars ==
    <<UPGRADES, level, gainedRewards, storedShapes, upgradeLevels, upgradeImprovements,
      currentGoal, delivered, hubLast>>
logicVars == <<tileContents, entities, nextUid, logicLast>>
gameVars == <<soundVars, hubVars, logicVars>>
vars == <<serializationVars, gameVars>>

(***************************************************************************)
(* Bounds of the model.                                                    *)
(***************************************************************************)
\* getCachedSchema calls in one behaviour
MaxCalls == 4
\* fields of a schema
MaxFields == 3
\* Shapes delivered to the hub in one behaviour.
MaxDeliveries == 5
\* The level up to which the development key completes goals.
MaxLevel == 5
\* Entities created in one behaviour.
MaxEntities == 3

(***************************************************************************)
(* Schema cache: BasicSerializableObject.getCachedSchema.                  *)
(***************************************************************************)
\* The classes deriving from BasicSerializableObject, and the identifiers
\* their getId() may return: class names, none of them the name of a
\* property every object inherits (such as "constructor").
Classes == {"HubGoals", "Belt", "Miner"}
ClassIds == {"HubGoals", "Belt"}

\* globalSchemaCache[id] of an identifier never stored: undefined.
NoEntry == 0
\* classnamesCache[id] of an identifier never claimed: undefined.
NoClass == "undefined"

\* assert(cond, msg) with a false condition throws (a fatal assertion): the
\* statements after it do not run.
AssertThrows == TRUE

\* A Schema instance is truthy: `if (entry)` is taken exactly for a stored one.
IsTruthyEntry(entry) == entry # NoEntry

\* The condition of the dev-build assert: the identifier is unclaimed or
\* claimed by this very class.
ClassNameFreeIgnored(id, cls) == TRUE
ClassNameFree(id, cls) ==
    classnamesCache[id] = cls \/ classnamesCache[id] = NoClass

\* `const entry = globalSchemaCache[id]; if (entry) return entry;`
CacheHitNever(id) == FALSE
CacheHit(id) == IsTruthyEntry(globalSchemaCache[id])

\* static getSchema(): builds a new Schema object on every run.
GetSchema == schemasBuilt + 1

\* One call record of the history.
CallRecord(cls, id, outcome, value, built) ==
    [cls |-> cls, id |-> id, outcome |-> outcome, value |-> value, built |-> built]

\* cls.getCachedSchema()
GetCachedSchema(cls) ==
    LET id == getId[cls] IN
    /\ Len(calls) < MaxCalls
    /\ IF G_IS_DEV /\ ~ClassNameFree(id, cls) /\ AssertThrows
       THEN \* the assert throws: nothing after it runs
            /\ calls' = Append(calls, CallRecord(cls, id, "assertion", NoEntry, FALSE))
            /\ UNCHANGED <<globalSchemaCache, classnamesCache, schemasBuilt, getSchemaRuns>>
       ELSE /\ classnamesCache' =
                  IF G_IS_DEV THEN [classnamesCache EXCEPT ![id] = cls]
                              ELSE classnamesCache
            /\ IF CacheHit(id)
               THEN /\ calls' = Append(calls,
                          CallRecord(cls, id, "returned", globalSchemaCache[id], FALSE))
                    /\ UNCHANGED <<globalSchemaCache, schemasBuilt, getSchemaRuns>>
               ELSE /\ schemasBuilt' = GetSchema
                    /\ getSchemaRuns' = [getSchemaRuns EXCEPT ![id] = @ + 1]
                    /\ globalSchemaCache' = [globalSchemaCache EXCEPT ![id] = GetSchema]
                    /\ calls' = Append(calls,
                          CallRecord(cls, id, "returned", GetSchema, TRUE))
    /\ UNCHANGED <<G_IS_DEV, getId>>

CacheInit ==
    /\ G_IS_DEV \in BOOLEAN
    /\ getId \in [Classes -> ClassIds]
    /\ globalSchemaCache = [id \in ClassIds |-> NoEntry]
    /\ classnamesCache = [id \in ClassIds |-> NoClass]
    /\ schemasBuilt = 0
    /\ getSchemaRuns = [id \in ClassIds |-> 0]
    /\ calls = <<>>

\* The cache before any class asked for its schema, in a fixed build.
CacheIdle ==
    /\ G_IS_DEV = TRUE
    /\ getId = [c \in Classes |-> "HubGoals"]
    /\ globalSchemaCache = [id \in ClassIds |-> NoEntry]
    /\ classnamesCache = [id \in ClassIds |-> NoClass]
    /\ schemasBuilt = 0
    /\ getSchemaRuns = [id \in ClassIds |-> 0]
    /\ calls = <<>>

(***************************************************************************)
(* Raw payloads, schemas and live objects.                                 *)
(***************************************************************************)
\* Field names.
Keys == {"level", "reward", "extra"}

\* JavaScript's null and undefined, as raw or live values.
Null == "null"
Undefined == "undefined"

\* Raw values a payload may hold under a key: null, undefined (an own key
\* holding undefined), a non-negative integer, a member of the enum, and a
\* string outside the enum.
RawValues == {Null, Undefined, "3", "belt", "nuclear"}

\* Marks a key the payload does not own.
NotOwned == "<not owned>"
\* Marks a field of the live object nothing has assigned yet.
Unassigned == "<unassigned>"

\* The descriptors used: types.uint, types.enum(["none", "belt"]) and
\* types.nullable(types.uint).
Types == {"uint", "enum", "nullable_uint"}

\* A Schema: field name -> descriptor. `for (const key in schema)` walks it
\* in insertion order, so it is kept as the sequence of its entries.
Field(key, type) == [key |-> key, type |-> type]
SchemaKeys(s) == {s[i].key : i \in DOMAIN s}
IsSchema(s) == \A i, j \in DOMAIN s : s[i].key = s[j].key => i = j
Schemas ==
    UNION {{s \in [1..n -> [key : Keys, type : Types]] : IsSchema(s)} : n \in 0..MaxFields}

\* A raw payload: null, undefined, a falsy primitive (0, NaN, false, ""), a
\* truthy primitive (a non-zero number, true), or an object owning some keys.
PayloadKinds == {"null", "undefined", "falsy", "truthy", "object"}
NoProps == [k \in Keys |-> NotOwned]
Payloads ==
    {[kind |-> k, props |-> NoProps] : k \in PayloadKinds \ {"object"}}
    \cup {[kind |-> "object", props |-> p] : p \in [Keys -> RawValues \cup {NotOwned}]}

\* `!data` is false: data is neither null, undefined nor a falsy primitive.
Truthy(d) == d.kind \in {"truthy", "object"}
\* data.hasOwnProperty(key), for a data it can be called on (a primitive is
\* boxed and owns none of the keys).
HasOwnProperty(d, key) == d.kind = "object" /\ d.props[key] # NotOwned
\* data[key]: undefined for a key the data does not own.
Get(d, key) == IF HasOwnProperty(d, key) THEN d.props[key] ELSE Undefined
\* value === null || value === undefined
IsNullOrUndefined(value) == value = Null \/ value = Undefined

\* A freshly constructed object: no schema field assigned.
FreshObject == [k \in Keys |-> Unassigned]

(***************************************************************************)
(* Error descriptions. The code returns strings; the model keeps what a    *)
(* string says: which check failed, the key it names (if any), and the     *)
(* value it quotes (if any).                                               *)
(***************************************************************************)
Error(kind, key, detail) == [kind |-> kind, key |-> key, detail |-> detail]
\* undefined / null: no error.
NoError == Error("none", "", "")
\* `if (errorStatus)`: a non-empty string.
IsError(e) == e.kind # "none"

\* Errors a base class's deserialize() may have returned.
InheritedErrors ==
    {Error("inherited", "", "base class failed"),
     Error("missing_key", "level", "")}

(***************************************************************************)
(* Data type descriptors (serialization_data_types.js).                    *)
(***************************************************************************)
\* allowNull(): true only for a Nullable-wrapped descriptor.
AllowNull(type) == type = "nullable_uint"

\* The shape check of a raw value.
RECURSIVE Accepts(_, _)
Accepts(type, raw) ==
    CASE type = "uint" -> raw = "3"
      [] type = "enum" -> raw \in {"none", "belt"}
      [] type = "nullable_uint" -> IsNullOrUndefined(raw) \/ Accepts("uint", raw)

\* What a descriptor says of a raw value it rejects: it describes the value,
\* the only thing verifySerializedValue(rawValue) is given.
DescriptorError(type, raw) ==
    CASE type = "enum" -> Error("unknown_enum_value", "", raw)
      [] OTHER -> Error("not_a_positive_integer", "", raw)

\* verifySerializedValue(raw): the shape check alone.
VerifySerializedValue(type, raw) ==
    IF Accepts(type, raw) THEN NoError ELSE DescriptorError(type, raw)

\* The live value a descriptor makes of an accepted raw value.
Convert(type, raw) ==
    IF type = "nullable_uint" /\ IsNullOrUndefined(raw) THEN Null ELSE raw

\* deserializeWithVerify(raw, object, key, root): verifies the shape, then
\* converts and assigns into object[key]. Yields the error and the object.
DeserializeWithVerify(type, raw, o, key) ==
    IF IsError(VerifySerializedValue(type, raw))
    THEN [errorStatus |-> VerifySerializedValue(type, raw), obj |-> o]
    ELSE [errorStatus |-> NoError, obj |-> [o EXCEPT ![key] = Convert(type, raw)]]

(***************************************************************************)
(* The generic engine: deserializeSchema and verifySchema.                 *)
(***************************************************************************)
\* `if (baseclassErrorResult)`: an error of the base class was handed in.
InheritedErrorNeverSupplied(baseclassErrorResult) == FALSE
InheritedErrorSupplied(baseclassErrorResult) == IsError(baseclassErrorResult)

\* `if (!data)`
DataMissingOnlyIfNull(d) == d.kind = "null"
DataMissing(d) == ~Truthy(d)

\* `if (!data.hasOwnProperty(key))`
KeyMissingNever(d, key) == FALSE
KeyMissing(d, key) == ~HasOwnProperty(d, key)

\* `if (!schema[key].allowNull() && (data[key] === null || data[key] === undefined))`
NullRejectedNever(type, value) == FALSE
NullRejected(type, value) == ~AllowNull(type) /\ IsNullOrUndefined(value)

\* `if (errorStatus) { ...; return errorStatus; }`
StopsWalkNever(errorStatus) == FALSE
StopsWalk(errorStatus) == IsError(errorStatus)

\* What a finished deserializeSchema call did: the value returned, the object
\* as left, and the keys handed to their descriptors, in order.
Outcome(result, o, invoked) == [result |-> result, obj |-> o, invoked |-> invoked]

\* The loop of deserializeSchema from the i-th schema entry on.
RECURSIVE DeserializeFields(_, _, _, _, _)
DeserializeFields(o, s, d, i, invoked) ==
    IF i > Len(s) THEN Outcome(NoError, o, invoked)
    ELSE
    LET key == s[i].key
        type == s[i].type
    IN  IF KeyMissing(d, key)
        THEN Outcome(Error("missing_key", key, ""), o, invoked)
        ELSE IF NullRejected(type, Get(d, key))
        THEN Outcome(Error("non_nullable_is_null", key, ""), o, invoked)
        ELSE
        LET r == DeserializeWithVerify(type, Get(d, key), o, key)
        IN  IF StopsWalk(r.errorStatus)
            THEN Outcome(r.errorStatus, r.obj, Append(invoked, key))
            ELSE DeserializeFields(r.obj, s, d, i + 1, Append(invoked, key))

\* deserializeSchema(obj, schema, data, baseclassErrorResult)
DeserializeSchema(o, s, d, baseclassErrorResult) ==
    IF InheritedErrorSupplied(baseclassErrorResult)
    THEN Outcome(baseclassErrorResult, o, <<>>)
    ELSE IF DataMissing(d)
    THEN Outcome(Error("null_data", "", ""), o, <<>>)
    ELSE DeserializeFields(o, s, d, 1, <<>>)

\* The loop of verifySchema from the i-th schema entry on. data.hasOwnProperty
\* of a null or undefined data is a TypeError, thrown out of verifySchema.
RECURSIVE VerifyFields(_, _, _, _)
VerifyFields(s, d, i, invoked) ==
    IF i > Len(s) THEN [outcome |-> "returned", result |-> NoError, invoked |-> invoked]
    ELSE
    LET key == s[i].key
        type == s[i].type
    IN  IF d.kind \in {"null", "undefined"}
        THEN [outcome |-> "threw", result |-> NoError, invoked |-> invoked]
        ELSE IF ~HasOwnProperty(d, key)
        THEN [outcome |-> "returned",
              result |-> Error("verify_missing_key", key, ""), invoked |-> invoked]
        ELSE IF ~AllowNull(type) /\ IsNullOrUndefined(Get(d, key))
        THEN [outcome |-> "returned",
              result |-> Error("verify_non_nullable_is_null", key, ""), invoked |-> invoked]
        ELSE
        LET errorStatus == VerifySerializedValue(type, Get(d, key))
        IN  IF IsError(errorStatus)
            THEN [outcome |-> "returned",
                  result |-> Error("verify", errorStatus.key, errorStatus.detail),
                  invoked |-> Append(invoked, key)]
            ELSE VerifyFields(s, d, i + 1, Append(invoked, key))

\* verifySchema(schema, data)
VerifySchema(s, d) == VerifyFields(s, d, 1, <<>>)

\* The record of an engine call.
OpRecord(op, baseclassErrorResult, outcome, result, invoked, objBefore) ==
    [op |-> op, baseclassErrorResult |-> baseclassErrorResult, outcome |-> outcome,
     result |-> result, invoked |-> invoked, objBefore |-> objBefore]

NoOp == OpRecord("none", NoError, "returned", NoError, <<>>, FreshObject)

\* A call deserializeSchema(obj, schema, data, baseclassErrorResult).
Deserialize(baseclassErrorResult) ==
    LET r == DeserializeSchema(obj, schema, data, baseclassErrorResult) IN
    /\ obj' = r.obj
    /\ lastOp' = OpRecord("deserialize", baseclassErrorResult, "returned",
                          r.result, r.invoked, obj)
    /\ UNCHANGED <<schema, data>>

\* A call verifySchema(schema, data).
Verify ==
    LET r == VerifySchema(schema, data) IN
    /\ lastOp' = OpRecord("verify", NoError, r.outcome, r.result, r.invoked, obj)
    /\ UNCHANGED <<schema, data, obj>>

EngineInit ==
    /\ schema \in Schemas
    /\ data \in Payloads
    /\ obj = FreshObject
    /\ lastOp = NoOp

\* The engine before any call, on an empty schema and payload.
EngineIdle ==
    /\ schema = <<>>
    /\ data = [kind |-> "object", props |-> NoProps]
    /\ obj = FreshObject
    /\ lastOp = NoOp

(***************************************************************************)
(* Schema extension: extendSchema.                                         *)
(***************************************************************************)
\* `result[key] = value`: replaces the value of a key the mapping owns (its
\* place in the order kept), adds the key at the end otherwise.
SetProperty(s, key, type) ==
    IF key \in SchemaKeys(s)
    THEN [i \in DOMAIN s |-> IF s[i].key = key THEN Field(key, type) ELSE s[i]]
    ELSE Append(s, Field(key, type))

\* Object.assign(target, source): every entry of source set on target.
RECURSIVE ObjectAssign(_, _, _)
ObjectAssign(target, source, i) ==
    IF i > Len(source) THEN target
    ELSE ObjectAssign(SetProperty(target, source[i].key, source[i].type), source, i + 1)

\* `Object.assign({}, base)`: the result is a new object, not base itself.
ResultAliasesBase == FALSE
ResultIsFreshObject == TRUE

\* `if (result.hasOwnProperty(key))`
IsDuplicateNever(result, key) == FALSE
IsDuplicate(result, key) == key \in SchemaKeys(result)

\* The loop of extendSchema from the i-th entry of newOne on: the result and
\* the keys logged as duplicates.
RECURSIVE ExtendFields(_, _, _, _)
ExtendFields(result, n, i, logged) ==
    IF i > Len(n) THEN [result |-> result, logged |-> logged]
    ELSE IF IsDuplicate(result, n[i].key)
    THEN ExtendFields(result, n, i + 1, Append(logged, n[i].key))
    ELSE ExtendFields(SetProperty(result, n[i].key, n[i].type), n, i + 1, logged)

\* extendSchema(base, newOne)
ExtendSchema(b, n) == ExtendFields(ObjectAssign(<<>>, b, 1), n, 1, <<>>)

\* A call extendSchema(base, newOne). Writes go to the result object: were
\* it base itself, base would end as the result.
Extend ==
    LET r == ExtendSchema(base, newOne) IN
    /\ extended' = [called |-> TRUE, result |-> r.result, logged |-> r.logged,
                    baseBefore |-> base, newOneBefore |-> newOne]
    /\ base' = IF ResultIsFreshObject THEN base ELSE r.result
    /\ UNCHANGED newOne

NotExtended ==
    [called |-> FALSE, result |-> <<>>, logged |-> <<>>,
     baseBefore |-> <<>>, newOneBefore |-> <<>>]

ExtendInit ==
    /\ base \in Schemas
    /\ newOne \in Schemas
    /\ extended = NotExtended

\* Before any extension, on empty schemas.
ExtendIdle ==
    /\ base = <<>>
    /\ newOne = <<>>
    /\ extended = NotExtended

(***************************************************************************)
(* serializeSchema. The map merged into is an object of its own, distinct  *)
(* from the object serialized and from the schema.                         *)
(***************************************************************************)
\* Marks a field the object does not own but inherits through its
\* prototype, where it holds PrototypeValue.
Inherited == "<inherited>"
PrototypeValue == "3"

\* Values a live object may hold in a field.
LiveValues == {"3", "belt", Null}
\* Live objects: each field owned (holding a value), inherited, or absent.
LiveObjects == [Keys -> LiveValues \cup {Unassigned, Inherited}]

\* The schemas serialized. serializeSchema treats every key name alike, so
\* the schemas list their keys in one order, with any of them left out.
KeyOrder == <<"level", "reward", "extra">>
KeyRank(key) == CHOOSE n \in DOMAIN KeyOrder : KeyOrder[n] = key
SerializedSchemas ==
    {s \in Schemas : \A i, j \in DOMAIN s : i < j => KeyRank(s[i].key) < KeyRank(s[j].key)}

\* The maps handed in as mergeWith: the default {}, and a map a base-class
\* call has populated.
BaseClassMap == [k \in Keys |-> "old"]
MergeMaps == {NoProps, BaseClassMap}

\* obj.hasOwnProperty(key)
OwnsOrInherits(o, key) == o[key] # Unassigned
OwnsProperty(o, key) == o[key] \notin {Unassigned, Inherited}
\* obj[key]: the prototype's value for an inherited field, undefined for an
\* absent one.
ObjGet(o, key) ==
    IF o[key] = Inherited THEN PrototypeValue
    ELSE IF o[key] = Unassigned THEN Undefined
    ELSE o[key]

\* A live value of the descriptor's type.
IsValidLive(type, value) ==
    CASE type = "uint" -> value = "3"
      [] type = "enum" -> value \in {"none", "belt"}
      [] type = "nullable_uint" -> IsNullOrUndefined(value) \/ value = "3"

\* descriptor.serialize(value): the raw value of a live value.
SerializeValue(type, value) ==
    IF type = "nullable_uint" /\ IsNullOrUndefined(value) THEN Null ELSE value

\* descriptor.serialize(value) of an ill-typed value fails an assertion of
\* the descriptor in a development build, and is best effort otherwise.
SerializeThrows(type, value) == G_IS_DEV /\ AssertThrows /\ ~IsValidLive(type, value)

\* `mergeWith[key] = schema[key].serialize(obj[key])`: the only write of
\* serializeSchema. Yields the object and the map after it.
WriteSerializedReplacingMap(o, m, key, value) ==
    [obj |-> o, mergeWith |-> [NoProps EXCEPT ![key] = value]]
WriteSerializedUnlessNull(o, m, key, value) ==
    [obj |-> o, mergeWith |-> IF value = Null THEN m ELSE [m EXCEPT ![key] = value]]
WriteSerializedIntoObjectToo(o, m, key, value) ==
    [obj |-> [o EXCEPT ![key] = value], mergeWith |-> [m EXCEPT ![key] = value]]
WriteSerialized(o, m, key, value) ==
    [obj |-> o, mergeWith |-> [m EXCEPT ![key] = value]]

\* The loop of serializeSchema from the i-th schema entry on: how the call
\* ended, the object and the map as left, and the keys serialized.
RECURSIVE SerializeFields(_, _, _, _, _)
SerializeFields(o, s, m, i, done) ==
    IF i > Len(s)
    THEN [outcome |-> "returned", obj |-> o, mergeWith |-> m, done |-> done]
    ELSE
    LET key == s[i].key
        type == s[i].type
    IN  IF ~OwnsProperty(o, key) /\ G_IS_DEV /\ AssertThrows
        THEN [outcome |-> "assertion", obj |-> o, mergeWith |-> m, done |-> done]
        ELSE IF SerializeThrows(type, ObjGet(o, key))
        THEN [outcome |-> "threw", obj |-> o, mergeWith |-> m, done |-> done]
        ELSE
        LET w == WriteSerialized(o, m, key, SerializeValue(type, ObjGet(o, key)))
        IN  SerializeFields(w.obj, s, w.mergeWith, i + 1, Append(done, key))

\* serializeSchema(obj, schema, mergeWith)
SerializeSchema(o, s, m) == SerializeFields(o, s, m, 1, <<>>)

\* `return mergeWith`: the map returned is the argument itself.
ReturnedMap == "mergeWith"

\* A call serializeSchema(obj, schema, mergeWith).
Serialize ==
    LET r == SerializeSchema(obj, schema, mergeWith) IN
    /\ obj' = r.obj
    /\ mergeWith' = r.mergeWith
    /\ serialized' = [outcome |-> r.outcome, returned |-> ReturnedMap, done |-> r.done,
                      objBefore |-> obj, mergeBefore |-> mergeWith]
    /\ lastOp' = OpRecord("serialize", NoError, r.outcome, NoError, r.done, obj)
    /\ UNCHANGED <<schema, data, restored>>

\* The payload a returned map is once written out and read back.
AsPayload(m) == [kind |-> "object", props |-> m]

\* deserializeSchema(freshObject, schema, raw) on the raw map the last
\* serializeSchema call returned.
Reload ==
    /\ serialized.outcome = "returned"
    /\ LET r == DeserializeSchema(FreshObject, schema, AsPayload(mergeWith), NoError) IN
       /\ restored' = [done |-> TRUE, result |-> r.result, obj |-> r.obj]
       /\ lastOp' = OpRecord("deserialize", NoError, "returned", r.result, r.invoked,
                             FreshObject)
    /\ data' = AsPayload(mergeWith)
    /\ UNCHANGED <<schema, obj, mergeWith, serialized>>

NotSerialized ==
    [outcome |-> "none", returned |-> "none", done |-> <<>>,
     objBefore |-> FreshObject, mergeBefore |-> NoProps]
NotRestored == [done |-> FALSE, result |-> NoError, obj |-> FreshObject]

SerializeInit ==
    /\ schema \in SerializedSchemas
    /\ obj \in LiveObjects
    /\ mergeWith \in MergeMaps
    /\ data = AsPayload(NoProps)
    /\ lastOp = NoOp
    /\ serialized = NotSerialized
    /\ restored = NotRestored

\* Before any serializeSchema call.
SerializeIdle ==
    /\ mergeWith = NoProps
    /\ serialized = NotSerialized
    /\ restored = NotRestored

\* Either build, with the schema cache untouched.
BuildInit ==
    /\ G_IS_DEV \in BOOLEAN
    /\ getId = [c \in Classes |-> "HubGoals"]
    /\ globalSchemaCache = [id \in ClassIds |-> NoEntry]
    /\ classnamesCache = [id \in ClassIds |-> NoClass]
    /\ schemasBuilt = 0
    /\ getSchemaRuns = [id \in ClassIds |-> 0]
    /\ calls = <<>>

\* No serialization call made, development build.
SerializationIdle == CacheIdle /\ EngineIdle /\ ExtendIdle /\ SerializeIdle

(***************************************************************************)
(* SoundInterface: the music part. A music instance is known by its path;  *)
(* play, stop and isPlaying of an instance start it, stop it and report    *)
(* whether it is started.                                                  *)
(***************************************************************************)
\* MUSIC: the paths initialize() creates an instance for.
MUSIC == {"main_menu.mp3", "theme_full.mp3"}
\* Keys handed to playThemeMusic: the MUSIC paths, a path with no instance,
\* and null.
MusicKeys == MUSIC \cup {"unknown.mp3", Null}

\* this.music[key]: undefined for a key with no instance.
MusicOf(key) == IF key \in MUSIC THEN key ELSE Undefined
\* `if (music)`: an instance, neither null nor undefined.
IsInstance(music) == music \in MUSIC

\* music.play(), music.stop(), music.isPlaying()
Play(pl, music) == [pl EXCEPT ![music] = TRUE]
Stop(pl, music) == [pl EXCEPT ![music] = FALSE]
IsPlaying(pl, music) == pl[music]

SoundCall(op, arg, log) ==
    [op |-> op, arg |-> arg, log |-> log,
     currentBefore |-> currentMusic, playingBefore |-> playing]

\* `if (this.currentMusic !== music)`
Switches(cur, music) == cur # music

\* `if (this.currentMusic) this.currentMusic.stop()` of playThemeMusic:
\* the calls made on the previous track.
LeavesPrevious(cur) == <<>>
StopsPrevious(cur) == IF IsInstance(cur) THEN <<[call |-> "stop", music |-> cur]>> ELSE <<>>

\* `if (music && this.pageIsVisible && !this.musicMuted) music.play()`
StartsNew(music) ==
    IF IsInstance(music) /\ pageIsVisible /\ ~musicMuted
    THEN <<[call |-> "play", music |-> music]>> ELSE <<>>

\* The instances' state after a sequence of play and stop calls.
RECURSIVE Apply(_, _)
Apply(pl, log) ==
    IF log = <<>> THEN pl
    ELSE Apply(IF Head(log).call = "play" THEN Play(pl, Head(log).music)
               ELSE Stop(pl, Head(log).music),
               Tail(log))

\* playThemeMusic(key)
PlayThemeMusic(key) ==
    LET music == MusicOf(key)
        log == IF Switches(currentMusic, music)
               THEN StopsPrevious(currentMusic) \o StartsNew(music)
               ELSE <<>>
    IN  /\ currentMusic' = IF Switches(currentMusic, music) THEN music ELSE currentMusic
        /\ playing' = Apply(playing, log)
        /\ soundLast' = SoundCall("playThemeMusic", key, log)
        /\ UNCHANGED <<pageIsVisible, musicMuted>>

\* setMusicMuted(muted)
SetMusicMuted(muted) ==
    LET log == IF ~IsInstance(currentMusic) THEN <<>>
               ELSE IF muted THEN <<[call |-> "stop", music |-> currentMusic]>>
               ELSE <<[call |-> "play", music |-> currentMusic]>>
    IN  /\ musicMuted' = muted
        /\ playing' = Apply(playing, log)
        /\ soundLast' = SoundCall("setMusicMuted", muted, log)
        /\ UNCHANGED <<currentMusic, pageIsVisible>>

\* onPageRenderableStateChanged(pageIsVisible)
OnPageRenderableStateChanged(visible) ==
    LET log == IF ~IsInstance(currentMusic) THEN <<>>
               ELSE IF visible
               THEN IF ~IsPlaying(playing, currentMusic) /\ ~musicMuted
                    THEN <<[call |-> "play", music |-> currentMusic]>> ELSE <<>>
               ELSE <<[call |-> "stop", music |-> currentMusic]>>
    IN  /\ pageIsVisible' = visible
        /\ playing' = Apply(playing, log)
        /\ soundLast' = SoundCall("onPageRenderableStateChanged", visible, log)
        /\ UNCHANGED <<currentMusic, musicMuted>>

NoSoundCall ==
    [op |-> "none", arg |-> Null, log |-> <<>>,
     currentBefore |-> Null, playingBefore |-> [m \in MUSIC |-> FALSE]]

\* After the constructor and initialize(): nothing selected or playing, the
\* page visible, music muted only by debug.disableMusic.
SoundInit ==
    /\ currentMusic = Null
    /\ playing = [m \in MUSIC |-> FALSE]
    /\ pageIsVisible = TRUE
    /\ musicMuted \in BOOLEAN
    /\ soundLast = NoSoundCall

SoundIdle ==
    /\ currentMusic = Null
    /\ playing = [m \in MUSIC |-> FALSE]
    /\ pageIsVisible = TRUE
    /\ musicMuted = FALSE
    /\ soundLast = NoSoundCall

(***************************************************************************)
(* HubGoals, with every debug flag off. Shapes are known by their hash.    *)
(***************************************************************************)
Shapes == {"CuCuCuCu", "RuRuRuRu"}
Rewards == {"reward_cutter", "reward_painter", "reward_rotater", "no_reward"}
UpgradeIds == {"belt", "miner"}

\* tutorialGoals: the goals of the first levels.
tutorialGoals ==
    <<[shape |-> "CuCuCuCu", required |-> 2, reward |-> "reward_cutter"],
      [shape |-> "RuRuRuRu", required |-> 1, reward |-> "reward_painter"],
      [shape |-> "CuCuCuCu", required |-> 3, reward |-> "reward_rotater"]>>

\* The tiers an upgrade table is built from: one shape, two shapes, and
\* the same shape listed twice.
Requirement(shape, amount) == [shape |-> shape, amount |-> amount]
TierChoices ==
    {[required |-> <<Requirement("CuCuCuCu", 1)>>, improvement |-> 1],
     [required |-> <<Requirement("CuCuCuCu", 2), Requirement("RuRuRuRu", 1)>>,
      improvement |-> 2],
     [required |-> <<Requirement("CuCuCuCu", 1), Requirement("CuCuCuCu", 1)>>,
      improvement |-> 1]}
\* Upgrade tables: per upgrade up to two tiers.
UpgradeTables ==
    [UpgradeIds -> UNION {[1..n -> TierChoices] : n \in 0..2}]

\* An entry of this.storedShapes: absent (reads as undefined), or a number.
NotStored == <<>>
Amount(n) == <<n>>
\* `x || 0` of an entry; a number is falsy only when it is 0
OrZero(entry) == IF entry = NotStored THEN 0 ELSE entry[1]

\* findNiceIntegerValue(level * 47.5) for levels 3 to 21, where it rounds
\* down to a multiple of 5.
FindNiceIntegerValue(lvl) == ((lvl * 95) \div 10) * 5

\* createNextGoal(): the goals this.currentGoal may become at a level;
\* createRandomShape() yields some shape.
NextGoals(lvl) ==
    IF lvl - 1 < Len(tutorialGoals)
    THEN {tutorialGoals[lvl]}
    ELSE {[shape |-> shape, required |-> 1000 + FindNiceIntegerValue(lvl),
           reward |-> "no_reward"] : shape \in Shapes}

\* `this.storedShapes[targetHash] >= this.currentGoal.required`
GoalReachedStrictly(stored, goal) ==
    stored[goal.shape] # NotStored /\ stored[goal.shape][1] > goal.required
GoalReached(stored, goal) ==
    stored[goal.shape] # NotStored /\ stored[goal.shape][1] >= goal.required

HubCall(op, arg, returned) ==
    [op |-> op, arg |-> arg, returned |-> returned,
     levelBefore |-> level, goalBefore |-> currentGoal, gainedBefore |-> gainedRewards,
     storedBefore |-> storedShapes, levelsBefore |-> upgradeLevels,
     improvementsBefore |-> upgradeImprovements]

\* onGoalCompleted()
OnGoalCompleted ==
    /\ gainedRewards' =
          [gainedRewards EXCEPT ![currentGoal.reward] = gainedRewards[currentGoal.reward] + 1]
    /\ level' = level + 1
    /\ currentGoal' \in NextGoals(level + 1)

\* handleDefinitionDelivered(definition), definition.getHash() = hash
HandleDefinitionDelivered(hash) ==
    LET stored == [storedShapes EXCEPT ![hash] = Amount(OrZero(storedShapes[hash]) + 1)] IN
    /\ delivered < MaxDeliveries
    /\ delivered' = delivered + 1
    /\ storedShapes' = stored
    /\ IF GoalReached(stored, currentGoal)
       THEN OnGoalCompleted
       ELSE UNCHANGED <<level, gainedRewards, currentGoal>>
    /\ hubLast' = HubCall("handleDefinitionDelivered", hash, TRUE)
    /\ UNCHANGED <<UPGRADES, upgradeLevels, upgradeImprovements>>

\* The key "C" of a development build: completes the current goal.
KeyCPressed ==
    /\ G_IS_DEV
    /\ level < MaxLevel
    /\ OnGoalCompleted
    /\ hubLast' = HubCall("keyC", "C", TRUE)
    /\ UNCHANGED <<UPGRADES, storedShapes, upgradeLevels, upgradeImprovements, delivered>>

\* canUnlockUpgrade(upgradeId)
CanUnlockUpgrade(upgradeId) ==
    LET tiers == UPGRADES[upgradeId]
        currentLevel == upgradeLevels[upgradeId]
    IN  /\ currentLevel < Len(tiers)
        /\ \A i \in DOMAIN tiers[currentLevel + 1].required :
              LET requirement == tiers[currentLevel + 1].required[i]
              IN  OrZero(storedShapes[requirement.shape]) >= requirement.amount

\* The loop of tryUnlockUgprade taking the requirements out of the store,
\* from the i-th requirement on. It runs after canUnlockUpgrade found at
\* least requirement.amount (1 or more) of each shape, so each entry read
\* is a number.
RECURSIVE TakeRequired(_, _, _)
TakeRequired(stored, required, i) ==
    IF i > Len(required) THEN stored
    ELSE TakeRequired(
            [stored EXCEPT
                ![required[i].shape] = Amount(stored[required[i].shape][1] - required[i].amount)],
            required, i + 1)

\* tryUnlockUgprade(upgradeId)
TryUnlockUgprade(upgradeId) ==
    IF ~CanUnlockUpgrade(upgradeId)
    THEN /\ hubLast' = HubCall("tryUnlockUgprade", upgradeId, FALSE)
         /\ UNCHANGED <<UPGRADES, level, gainedRewards, storedShapes, upgradeLevels,
                        upgradeImprovements, currentGoal, delivered>>
    ELSE LET tierData == UPGRADES[upgradeId][upgradeLevels[upgradeId] + 1] IN
         /\ storedShapes' = TakeRequired(storedShapes, tierData.required, 1)
         /\ upgradeLevels' = [upgradeLevels EXCEPT ![upgradeId] = upgradeLevels[upgradeId] + 1]
         /\ upgradeImprovements' =
               [upgradeImprovements EXCEPT
                   ![upgradeId] = upgradeImprovements[upgradeId] + tierData.improvement]
         /\ hubLast' = HubCall("tryUnlockUgprade", upgradeId, TRUE)
         /\ UNCHANGED <<UPGRADES, level, gainedRewards, currentGoal, delivered>>

\* The state the constructor leaves, before any call.
HubConstructed ==
    /\ level = 1
    /\ gainedRewards = [r \in Rewards |-> 0]
    /\ storedShapes = [h \in Shapes |-> NotStored]
    /\ upgradeLevels = [id \in UpgradeIds |-> 0]
    /\ upgradeImprovements = [id \in UpgradeIds |-> 1]
    /\ currentGoal = tutorialGoals[1]
    /\ delivered = 0
    /\ hubLast = [op |-> "none", arg |-> Null, returned |-> TRUE,
                  levelBefore |-> 1, goalBefore |-> tutorialGoals[1],
                  gainedBefore |-> [r \in Rewards |-> 0],
                  storedBefore |-> [h \in Shapes |-> NotStored],
                  levelsBefore |-> [id \in UpgradeIds |-> 0],
                  improvementsBefore |-> [id \in UpgradeIds |-> 1]]

HubInit == UPGRADES \in UpgradeTables /\ HubConstructed
HubIdle == UPGRADES = [id \in UpgradeIds |-> <<>>] /\ HubConstructed

(***************************************************************************)
(* GameLogic: placing and deleting buildings on a small map. A call is     *)
(* given the footprint getTileSpaceBounds() yields for its origin,         *)
(* rotation and building dimensions.                                       *)
(***************************************************************************)
\* The map: tiles (x, y) of a two by two area.
Coords == 0..1
Tiles == Coords \X Coords
\* Footprints: the rectangles inside the map.
Rects ==
    {r \in [x : Coords, y : Coords, w : 1..2, h : 1..2] :
        r.x + r.w - 1 \in Coords /\ r.y + r.h - 1 \in Coords}
\* Buildings: unlocked or not, and the components their entities get.
Buildings == [unlocked : BOOLEAN, ReplaceableMapEntity : BOOLEAN, Unremovable : BOOLEAN]

Uids == 1..MaxEntities
NoEntity == 0
Destroyed == [alive |-> FALSE]

\* The tiles of a footprint in the order the loops visit them: x outside,
\* y inside.
TileAt(rect, k) == <<rect.x + (k \div rect.h), rect.y + (k % rect.h)>>
TileCount(rect) == rect.w * rect.h
RectTiles(rect) == {TileAt(rect, k) : k \in 0..(TileCount(rect) - 1)}

\* `contents && contents.components.ReplaceableMapEntity`
HoldsReplaceable(tc, ents, tile) ==
    tc[tile] # NoEntity /\ ents[tc[tile]].ReplaceableMapEntity
\* `contents && !contents.components.ReplaceableMapEntity`
HoldsFixed(tc, ents, tile) ==
    tc[tile] # NoEntity /\ ~ents[tc[tile]].ReplaceableMapEntity

\* isAreaFreeToBuild(origin, rotation, building)
IsAreaFreeToBuild(rect) ==
    \A tile \in RectTiles(rect) : ~HoldsFixed(tileContents, entities, tile)

\* checkCanPlaceBuilding(origin, rotation, building)
CheckCanPlaceBuilding(rect, building) ==
    IF ~building.unlocked THEN FALSE ELSE IsAreaFreeToBuild(rect)

\* canDeleteBuilding(building); an entity on the map has a StaticMapEntity
\* component.
CanDeleteBuilding(ents, uid) == ~ents[uid].Unremovable

\* root.map.removeStaticEntity(building) and
\* root.entityMgr.destroyEntity(building)
RemoveStaticEntity(tc, uid) == [t \in Tiles |-> IF tc[t] = uid THEN NoEntity ELSE tc[t]]
DestroyEntity(ents, uid) == [ents EXCEPT ![uid] = Destroyed]

\* The loops of tryPlaceBuilding from the k-th tile of the footprint on:
\* whether they ran through, the map and the entities as left, and the
\* entities removed.
RECURSIVE RemoveBelow(_, _, _, _, _)
RemoveBelow(rect, k, tc, ents, removed) ==
    IF k >= TileCount(rect)
    THEN [done |-> TRUE, tileContents |-> tc, entities |-> ents, removed |-> removed]
    ELSE
    LET tile == TileAt(rect, k) IN
    IF ~HoldsReplaceable(tc, ents, tile)
    THEN RemoveBelow(rect, k + 1, tc, ents, removed)
    ELSE IF ~CanDeleteBuilding(ents, tc[tile])
    THEN [done |-> FALSE, tileContents |-> tc, entities |-> ents, removed |-> removed]
    ELSE RemoveBelow(rect, k + 1, RemoveStaticEntity(tc, tc[tile]),
                     DestroyEntity(ents, tc[tile]), removed \cup {tc[tile]})

\* building.createAndPlaceEntity(root, origin, rotation, rotationVariant):
\* a new entity with the building's components, on every tile of the
\* footprint.
NewEntity(rect, building) ==
    [alive |-> TRUE, rect |-> rect,
     ReplaceableMapEntity |-> building.ReplaceableMapEntity,
     Unremovable |-> building.Unremovable]

LogicCall(op, rect, building, returned, removed) ==
    [op |-> op, rect |-> rect, building |-> building, returned |-> returned,
     removed |-> removed, tilesBefore |-> tileContents, entitiesBefore |-> entities]

\* tryPlaceBuilding({ origin, rotation, rotationVariant, building })
TryPlaceBuilding(rect, building) ==
    /\ nextUid <= MaxEntities
    /\ IF ~CheckCanPlaceBuilding(rect, building)
       THEN /\ logicLast' = LogicCall("tryPlaceBuilding", rect, building, FALSE, {})
            /\ UNCHANGED <<tileContents, entities, nextUid>>
       ELSE
       LET r == RemoveBelow(rect, 0, tileContents, entities, {}) IN
       IF ~r.done
       THEN /\ tileContents' = r.tileContents
            /\ entities' = r.entities
            /\ logicLast' = LogicCall("tryPlaceBuilding", rect, building, FALSE, r.removed)
            /\ UNCHANGED nextUid
       ELSE /\ tileContents' =
                  [t \in Tiles |->
                      IF t \in RectTiles(rect) THEN nextUid ELSE r.tileContents[t]]
            /\ entities' = [r.entities EXCEPT ![nextUid] = NewEntity(rect, building)]
            /\ nextUid' = nextUid + 1
            /\ logicLast' = LogicCall("tryPlaceBuilding", rect, building, TRUE, r.removed)

\* tryDeleteBuilding(building), for an entity on the map
TryDeleteBuilding(uid) ==
    /\ \E t \in Tiles : tileContents[t] = uid
    /\ IF ~CanDeleteBuilding(entities, uid)
       THEN /\ logicLast' = LogicCall("tryDeleteBuilding", entities[uid].rect,
                                      entities[uid], FALSE, {})
            /\ UNCHANGED <<tileContents, entities, nextUid>>
       ELSE /\ tileContents' = RemoveStaticEntity(tileContents, uid)
            /\ entities' = DestroyEntity(entities, uid)
            /\ logicLast' = LogicCall("tryDeleteBuilding", entities[uid].rect,
                                      entities[uid], TRUE, {uid})
            /\ UNCHANGED nextUid

\* An empty map, no call made.
LogicInit ==
    /\ tileContents = [t \in Tiles |-> NoEntity]
    /\ entities = [uid \in Uids |-> Destroyed]
    /\ nextUid = 1
    /\ logicLast = [op |-> "none"]

\* No game object in use.
GameIdle == SoundIdle /\ HubIdle /\ LogicInit

(***************************************************************************)
(* Specifications.                                                         *)
(***************************************************************************)
InitCache == CacheInit /\ EngineIdle /\ ExtendIdle /\ SerializeIdle /\ GameIdle
NextCache ==
    \E cls \in Classes :
        GetCachedSchema(cls) /\ UNCHANGED <<engineVars, extendVars, serializeVars, gameVars>>
SpecCache == InitCache /\ [][NextCache]_vars

InitEngine == CacheIdle /\ EngineInit /\ ExtendIdle /\ SerializeIdle /\ GameIdle
NextEngine ==
    \/ \E e \in InheritedErrors \cup {NoError} :
          Deserialize(e) /\ UNCHANGED <<cacheVars, extendVars, serializeVars, gameVars>>
    \/ Verify /\ UNCHANGED <<cacheVars, extendVars, serializeVars, gameVars>>
SpecEngine == InitEngine /\ [][NextEngine]_vars

InitExtend == CacheIdle /\ EngineIdle /\ ExtendInit /\ SerializeIdle /\ GameIdle
NextExtend == Extend /\ UNCHANGED <<cacheVars, engineVars, serializeVars, gameVars>>
SpecExtend == InitExtend /\ [][NextExtend]_vars

InitSerialize == BuildInit /\ SerializeInit /\ ExtendIdle /\ GameIdle
NextSerialize ==
    \/ Serialize /\ UNCHANGED <<cacheVars, extendVars, gameVars>>
    \/ Reload /\ UNCHANGED <<cacheVars, extendVars, gameVars>>
    \/ Verify /\ UNCHANGED <<cacheVars, extendVars, serializeVars, gameVars>>
SpecSerialize == InitSerialize /\ [][NextSerialize]_vars

InitSound == SerializationIdle /\ SoundInit /\ HubIdle /\ LogicInit
NextSound ==
    \/ \E key \in MusicKeys :
          PlayThemeMusic(key) /\ UNCHANGED <<serializationVars, hubVars, logicVars>>
    \/ \E muted \in BOOLEAN :
          SetMusicMuted(muted) /\ UNCHANGED <<serializationVars, hubVars, logicVars>>
    \/ \E visible \in BOOLEAN :
          OnPageRenderableStateChanged(visible) /\ UNCHANGED <<serializationVars, hubVars, logicVars>>
SpecSound == InitSound /\ [][NextSound]_vars

InitHub == SerializationIdle /\ SoundIdle /\ HubInit /\ LogicInit
NextHub ==
    \/ \E hash \in Shapes :
          HandleDefinitionDelivered(hash) /\ UNCHANGED <<serializationVars, soundVars, logicVars>>
    \/ \E upgradeId \in UpgradeIds :
          TryUnlockUgprade(upgradeId) /\ UNCHANGED <<serializationVars, soundVars, logicVars>>
    \/ KeyCPressed /\ UNCHANGED <<serializationVars, soundVars, logicVars>>
SpecHub == InitHub /\ [][NextHub]_vars

InitLogic == SerializationIdle /\ SoundIdle /\ HubIdle /\ LogicInit
NextLogic ==
    \/ \E rect \in Rects, building \in Buildings :
          TryPlaceBuilding(rect, building)
              /\ UNCHANGED <<serializationVars, soundVars, hubVars>>
    \/ \E uid \in Uids :
          TryDeleteBuilding(uid) /\ UNCHANGED <<serializationVars, soundVars, hubVars>>
SpecLogic == InitLogic /\ [][NextLogic]_vars

(***************************************************************************)
(* Properties of the schema cache (checked under SpecCache).               *)
(***************************************************************************)
Returned(i) == calls[i].outcome = "returned"
\* The first call made for the identifier of call i, and the first of them
\* that returned.
FirstClaim(i) ==
    CHOOSE j \in DOMAIN calls :
        /\ calls[j].id = calls[i].id
        /\ \A k \in DOMAIN calls : calls[k].id = calls[i].id => j <= k
FirstReturned(i) ==
    CHOOSE j \in DOMAIN calls :
        /\ calls[j].id = calls[i].id /\ Returned(j)
        /\ \A k \in DOMAIN calls : (calls[k].id = calls[i].id /\ Returned(k)) => j <= k

C10_CollisionFlagged ==
    G_IS_DEV =>
        \A i \in DOMAIN calls :
            /\ calls[i].outcome = "assertion" <=> calls[i].cls # calls[FirstClaim(i)].cls
            /\ classnamesCache[calls[i].id] = calls[FirstClaim(i)].cls

\* C10 witness: a class claims an identifier, a second class asking under it
\* is flagged, and the first class asks again without a diagnostic.
C10_Witness ==
    /\ G_IS_DEV
    /\ Len(calls) >= 3
    /\ calls[1].id = calls[2].id /\ calls[1].id = calls[3].id
    /\ calls[2].cls # calls[1].cls /\ calls[3].cls = calls[1].cls
    /\ calls[2].outcome = "assertion"
    /\ Returned(1) /\ Returned(3)

(***************************************************************************)
(* Properties of the engine (checked under SpecEngine). They are stated    *)
(* on the call made last (lastOp), its inputs (schema, data) and the       *)
(* object as the call left it (obj).                                       *)
(***************************************************************************)
KeyOf(i) == schema[i].key
TypeOf(i) == schema[i].type
RawOf(i) == Get(data, KeyOf(i))
WasInvoked(key) == \E n \in DOMAIN lastOp.invoked : lastOp.invoked[n] = key
Deserialized == lastOp.op = "deserialize"
\* The call was handed no inherited error and a payload that is an object
\* or a truthy primitive, so it walked the schema.
WalkRan ==
    /\ Deserialized
    /\ ~IsError(lastOp.baseclassErrorResult)
    /\ data.kind \in {"truthy", "object"}

\* Why the i-th schema field fails on the payload, if it does.
PayloadLacks(i) == data.kind # "object" \/ data.props[KeyOf(i)] = NotOwned
IsNullField(i) == ~AllowNull(TypeOf(i)) /\ RawOf(i) \in {Null, Undefined}
DescriptorRejects(i) == ~Accepts(TypeOf(i), RawOf(i))
FieldFails(i) == PayloadLacks(i) \/ IsNullField(i) \/ DescriptorRejects(i)
RejectedByDescriptor(i) == ~PayloadLacks(i) /\ ~IsNullField(i) /\ DescriptorRejects(i)
\* The first schema field, in schema order, that fails; one past the last
\* field when none does.
FirstFailing ==
    IF \E i \in DOMAIN schema : FieldFails(i)
    THEN CHOOSE i \in DOMAIN schema :
            FieldFails(i) /\ \A j \in DOMAIN schema : FieldFails(j) => i <= j
    ELSE Len(schema) + 1
\* The error the i-th field fails with.
FieldError(i) ==
    IF PayloadLacks(i) THEN Error("missing_key", KeyOf(i), "")
    ELSE IF IsNullField(i) THEN Error("non_nullable_is_null", KeyOf(i), "")
    ELSE DescriptorError(TypeOf(i), RawOf(i))

\* C2 (as claimed): verifySchema returns (it does not throw), and it returns
\* an error exactly when deserializeSchema into a fresh object, with no
\* inherited error, returns one for the same schema and payload.
C2_VerifyAgreesWithDeserialize ==
    lastOp.op = "verify" =>
        /\ lastOp.outcome = "returned"
        /\ IsError(lastOp.result)
             <=> IsError(DeserializeSchema(FreshObject, schema, data, NoError).result)

\* C3: a deserializeSchema walk stops at the first failing field in schema
\* order: the fields before it were handed to their descriptors and hold
\* their deserialized values, the failing field's error is returned, the
\* failing field and the fields after it are as before the call, and no
\* field after it was handed to a descriptor.
C3_FirstFailureStopsWalk ==
    WalkRan =>
        LET stop == FirstFailing
            last == IF stop \in DOMAIN schema /\ ~RejectedByDescriptor(stop)
                    THEN stop - 1
                    ELSE IF stop \in DOMAIN schema THEN stop ELSE Len(schema)
        IN  /\ lastOp.invoked = [n \in 1..last |-> KeyOf(n)]
            /\ \A i \in DOMAIN schema :
                  /\ i < stop => obj[KeyOf(i)] = Convert(TypeOf(i), RawOf(i))
                  /\ i >= stop => obj[KeyOf(i)] = lastOp.objBefore[KeyOf(i)]
            /\ lastOp.result =
                  IF stop \in DOMAIN schema THEN FieldError(stop) ELSE NoError

\* C3 witness: of three fields the first was assigned, the second was
\* rejected by its descriptor, and the third, which the payload holds a
\* valid value for, was left unassigned.
C3_Witness ==
    /\ WalkRan
    /\ Len(schema) = 3
    /\ FirstFailing = 2 /\ RejectedByDescriptor(2)
    /\ ~FieldFails(3)
    /\ obj[KeyOf(1)] = RawOf(1)
    /\ obj[KeyOf(3)] = Unassigned
    /\ IsError(lastOp.result)

\* C4: for a schema field whose descriptor does not allow null, a
\* deserializeSchema call on a payload whose value for the field is null or
\* undefined returns an error, does not hand the field to its descriptor
\* and leaves the object's field as it was.
C4_NonNullableRejected ==
    Deserialized =>
        \A i \in DOMAIN schema :
            (~AllowNull(TypeOf(i)) /\ RawOf(i) \in {Null, Undefined}) =>
                /\ IsError(lastOp.result)
                /\ ~WasInvoked(KeyOf(i))
                /\ obj[KeyOf(i)] = lastOp.objBefore[KeyOf(i)]

\* C4 witness: the walk assigned a first field and then met an own key
\* holding null for a non-nullable field.
C4_Witness ==
    /\ WalkRan
    /\ Len(schema) >= 2
    /\ FirstFailing = 2
    /\ ~PayloadLacks(2) /\ RawOf(2) = Null /\ ~AllowNull(TypeOf(2))
    /\ lastOp.result = Error("non_nullable_is_null", KeyOf(2), "")
    /\ lastOp.invoked = <<KeyOf(1)>>
    /\ obj[KeyOf(2)] = Unassigned

\* C5 (as claimed): for every schema field whose key the payload does not
\* own, the walk returns the missing-key error naming that key, without
\* handing the field to its descriptor.
C5_MissingKeyAlwaysNamed ==
    WalkRan =>
        \A i \in DOMAIN schema :
            PayloadLacks(i) =>
                /\ lastOp.result = Error("missing_key", KeyOf(i), "")
                /\ ~WasInvoked(KeyOf(i))

\* C5 (amended): for every schema field, nullable or not, whose key the
\* payload does not own, deserializeSchema returns an error without handing
\* the field to its descriptor or assigning it; the error is the missing-key
\* error naming that key when the field is the first to fail in a walk.
C5_MissingKeyDetected ==
    Deserialized =>
        \A i \in DOMAIN schema :
            PayloadLacks(i) =>
                /\ IsError(lastOp.result)
                /\ ~WasInvoked(KeyOf(i))
                /\ obj[KeyOf(i)] = lastOp.objBefore[KeyOf(i)]
                /\ (WalkRan /\ FirstFailing = i) =>
                       lastOp.result = Error("missing_key", KeyOf(i), "")

\* C5 witness: the walk assigned a first field and then found the key of a
\* nullable field missing.
C5_Witness ==
    /\ WalkRan
    /\ Len(schema) >= 2
    /\ FirstFailing = 2
    /\ PayloadLacks(2) /\ AllowNull(TypeOf(2))
    /\ lastOp.result = Error("missing_key", KeyOf(2), "")
    /\ lastOp.invoked = <<KeyOf(1)>>

\* C6 (as claimed): when the walk stops at a field its descriptor rejects,
\* the error returned names that field.
C6_DescriptorErrorNamesField ==
    WalkRan =>
        \A i \in DOMAIN schema :
            (FirstFailing = i /\ RejectedByDescriptor(i)) =>
                lastOp.result.key = KeyOf(i)

\* C8: deserializeSchema handed an inherited error returns exactly that
\* error, hands no field to a descriptor and leaves the object as it was,
\* whatever the schema and the payload.
C8_InheritedErrorShortCircuits ==
    (Deserialized /\ IsError(lastOp.baseclassErrorResult)) =>
        /\ lastOp.result = lastOp.baseclassErrorResult
        /\ lastOp.invoked = <<>>
        /\ obj = lastOp.objBefore

\* C8 witness: an inherited error handed in with a payload every field of a
\* non-empty schema would have accepted; the object is still fresh.
C8_Witness ==
    /\ Deserialized /\ IsError(lastOp.baseclassErrorResult)
    /\ Len(schema) >= 2
    /\ data.kind = "object" /\ FirstFailing = Len(schema) + 1
    /\ lastOp.result = lastOp.baseclassErrorResult
    /\ obj = FreshObject

\* C9 (as claimed): with no inherited error, deserializeSchema returns the
\* null-data error exactly when the payload is absent (null or undefined),
\* and then assigns nothing and hands no field to a descriptor.
C9_NullDataErrorIffAbsent ==
    (Deserialized /\ ~IsError(lastOp.baseclassErrorResult)) =>
        /\ lastOp.result = Error("null_data", "", "")
             <=> data.kind \in {"null", "undefined"}
        /\ data.kind \in {"null", "undefined"} =>
             (lastOp.invoked = <<>> /\ obj = lastOp.objBefore)

\* C9 (amended): with no inherited error, deserializeSchema returns the
\* null-data error exactly when the payload is falsy: absent (null or
\* undefined) or a falsy primitive (0, NaN, false, ""); it then assigns
\* nothing and hands no field to a descriptor. Any other payload is walked.
C9_NullDataErrorIffFalsy ==
    (Deserialized /\ ~IsError(lastOp.baseclassErrorResult)) =>
        /\ lastOp.result = Error("null_data", "", "")
             <=> data.kind \in {"null", "undefined", "falsy"}
        /\ data.kind \in {"null", "undefined", "falsy"} =>
             (lastOp.invoked = <<>> /\ obj = lastOp.objBefore)
        /\ data.kind \in {"truthy", "object"} =>
             (\A i \in DOMAIN schema : i < FirstFailing => WasInvoked(KeyOf(i)))

\* C9 witness: an undefined payload met with the null-data error, on a
\* schema that has fields.
C9_Witness ==
    /\ Deserialized /\ ~IsError(lastOp.baseclassErrorResult)
    /\ data.kind = "undefined"
    /\ Len(schema) >= 1
    /\ lastOp.result = Error("null_data", "", "")
    /\ obj = FreshObject

(***************************************************************************)
(* Properties of schema extension (checked under SpecExtend).              *)
(***************************************************************************)
\* C7: extendSchema(base, newOne) returns a mapping that starts with the
\* entries of base, unchanged, followed by the entries of newOne whose key
\* base does not own; a key of both keeps base's descriptor and is logged
\* as a duplicate; base and newOne are as before the call.
C7_ExtendSchemaBaseWins ==
    extended.called =>
        LET r == extended.result
            b == extended.baseBefore
            n == extended.newOneBefore
        IN  /\ IsSchema(r)
            /\ Len(r) >= Len(b)
            /\ \A i \in DOMAIN b : r[i] = b[i]
            /\ SchemaKeys(r) = SchemaKeys(b) \cup SchemaKeys(n)
            /\ \A j \in DOMAIN n :
                  IF n[j].key \in SchemaKeys(b)
                  THEN \E m \in DOMAIN extended.logged : extended.logged[m] = n[j].key
                  ELSE \E i \in DOMAIN r : r[i] = n[j]
            /\ Len(extended.logged) = Cardinality(SchemaKeys(b) \cap SchemaKeys(n))
            /\ base = b
            /\ newOne = n

\* C7 witness: newOne redefines a key of base with another descriptor and
\* adds a key of its own.
C7_Witness ==
    /\ extended.called
    /\ \E i \in DOMAIN base, j \in DOMAIN newOne :
          base[i].key = newOne[j].key /\ base[i].type # newOne[j].type
    /\ \E j \in DOMAIN newOne : newOne[j].key \notin SchemaKeys(base)
    /\ Len(extended.logged) = 1
    /\ Len(extended.result) = Len(base) + Len(newOne) - 1

(***************************************************************************)
(* serializeSchema: claims C11 to C14.                                     *)
(***************************************************************************)
SerializeReturned == serialized.outcome = "returned"
\* The object handed to the last serializeSchema call holds, in every
\* schema field, an own value of the field's type.
HeldValidValues ==
    \A i \in DOMAIN schema :
        /\ serialized.objBefore[KeyOf(i)] \in LiveValues
        /\ IsValidLive(TypeOf(i), serialized.objBefore[KeyOf(i)])
\* The first schema field the object does not own; one past the last field
\* when it owns them all.
FirstUnowned ==
    LET unowned == {i \in DOMAIN schema :
                        serialized.objBefore[KeyOf(i)] \in {Unassigned, Inherited}}
    IN  IF unowned = {} THEN Len(schema) + 1
        ELSE CHOOSE i \in unowned : \A j \in unowned : i <= j

\* C11: a serializeSchema call that returns hands back the very map it was
\* given to merge into; that map then holds, under every schema field, the
\* descriptor's serialization of the object's value, and its entries under
\* names outside the schema are as they were.
C11_SerializeFillsMergeWith ==
    SerializeReturned =>
        /\ serialized.returned = "mergeWith"
        /\ \A i \in DOMAIN schema :
              mergeWith[KeyOf(i)] =
                  SerializeValue(TypeOf(i), ObjGet(serialized.objBefore, KeyOf(i)))
        /\ \A k \in Keys \ SchemaKeys(schema) : mergeWith[k] = serialized.mergeBefore[k]
C11_Witness ==
    /\ SerializeReturned
    /\ Len(schema) = 2
    /\ serialized.mergeBefore = BaseClassMap
    /\ \A i \in DOMAIN schema : mergeWith[KeyOf(i)] # "old"
    /\ \E k \in Keys \ SchemaKeys(schema) : mergeWith[k] = "old"

\* C12: for an object holding a valid value in every schema field, reading
\* what serializeSchema wrote into a fresh object with deserializeSchema
\* reports no error and leaves every schema field with the original value.
C12_RoundTrip ==
    (restored.done /\ HeldValidValues) =>
        /\ restored.result = NoError
        /\ \A i \in DOMAIN schema : restored.obj[KeyOf(i)] = serialized.objBefore[KeyOf(i)]
C12_Witness ==
    /\ restored.done
    /\ HeldValidValues
    /\ Len(schema) = MaxFields
    /\ \E i \in DOMAIN schema : restored.obj[KeyOf(i)] = Null
    /\ \E i \in DOMAIN schema : restored.obj[KeyOf(i)] = "belt"
    /\ \E i \in DOMAIN schema : restored.obj[KeyOf(i)] = "3"

\* C13: in a development build, serializeSchema on an object that does not
\* own one of the schema's fields (a field inherited through the prototype
\* is not owned) does not return: it fails an assertion, at that field when
\* the fields before it serialized.
C13_UnownedFieldAsserts ==
    (serialized.outcome # "none" /\ G_IS_DEV /\ FirstUnowned <= Len(schema)) =>
        /\ ~SerializeReturned
        /\ \/ serialized.outcome = "assertion" /\ Len(serialized.done) = FirstUnowned - 1
           \/ serialized.outcome = "threw" /\ Len(serialized.done) < FirstUnowned - 1
C13_Witness ==
    /\ G_IS_DEV
    /\ serialized.outcome = "assertion"
    /\ Len(schema) >= 2
    /\ FirstUnowned = 2
    /\ serialized.objBefore[KeyOf(2)] = Inherited
    /\ Len(serialized.done) = 1

\* C14: a verifySchema call changes neither the schema, the payload, the
\* live object nor anything serializeSchema produced; a serializeSchema
\* call changes neither the object's fields nor the schema, whether it
\* returns or not.
C14_ReadOnly ==
    [][/\ lastOp'.op = "verify" =>
             /\ schema' = schema /\ data' = data /\ obj' = obj
             /\ mergeWith' = mergeWith /\ restored' = restored
       /\ lastOp'.op = "serialize" => (schema' = schema /\ obj' = obj)]_vars
C14_Witness ==
    /\ lastOp.op = "verify"
    /\ SerializeReturned
    /\ restored.done
    /\ Len(schema) >= 2
    /\ mergeWith # serialized.mergeBefore
    /\ obj = serialized.objBefore

(***************************************************************************)
(* SoundInterface: claims C15 and C16.                                     *)
(***************************************************************************)
\* C15: a music track is playing only if the page is visible and music is
\* not muted.
C15_PlaysOnlyIfAudible ==
    \A m \in MUSIC : playing[m] => (pageIsVisible /\ ~musicMuted)

ThemeRequested == soundLast.op = "playThemeMusic"
RequestedMusic == MusicOf(soundLast.arg)

\* C16: a playing track is the current music, so at most one track plays;
\* a playThemeMusic call that switches away from a track stops that track
\* before anything else; a call with the key of the current track changes
\* nothing and touches no track.
C16_OneTrackAtATime ==
    /\ \A m \in MUSIC : playing[m] => currentMusic = m
    /\ (ThemeRequested /\ soundLast.currentBefore \in MUSIC
          /\ RequestedMusic # soundLast.currentBefore) =>
           /\ soundLast.log # <<>>
           /\ Head(soundLast.log) = [call |-> "stop", music |-> soundLast.currentBefore]
           /\ ~playing[soundLast.currentBefore]
    /\ (ThemeRequested /\ soundLast.currentBefore \in MUSIC
          /\ RequestedMusic = soundLast.currentBefore) =>
           /\ soundLast.log = <<>>
           /\ currentMusic = soundLast.currentBefore
           /\ playing = soundLast.playingBefore
C16_Witness ==
    /\ ThemeRequested
    /\ soundLast.currentBefore \in MUSIC
    /\ soundLast.playingBefore[soundLast.currentBefore]
    /\ RequestedMusic \in MUSIC \ {soundLast.currentBefore}
    /\ playing[RequestedMusic]

(***************************************************************************)
(* HubGoals: claims C17 and C18.                                           *)
(***************************************************************************)
UpgradeTried == hubLast.op = "tryUnlockUgprade"
Delivered == hubLast.op = "handleDefinitionDelivered"

\* C17: whatever the upgrade table, every stored shape amount is a number
\* that is not negative, every upgrade level is at most the number of
\* tiers of its upgrade, and a tryUnlockUgprade call that returned false
\* changed no stored amount, upgrade level or improvement.
C17_StoreNeverNegative ==
    /\ \A h \in Shapes : storedShapes[h] # NotStored => storedShapes[h][1] >= 0
    /\ \A id \in UpgradeIds : upgradeLevels[id] <= Len(UPGRADES[id])
    /\ (UpgradeTried /\ ~hubLast.returned) =>
           /\ storedShapes = hubLast.storedBefore
           /\ upgradeLevels = hubLast.levelsBefore
           /\ upgradeImprovements = hubLast.improvementsBefore

\* C18: the level is 1 before any call and no call lowers it; a
\* handleDefinitionDelivered call adds exactly 1 to the delivered shape's
\* amount and to no other, and raises the level by exactly 1 when, after
\* the addition, the amount of the goal's shape has reached the required
\* amount, and by 0 otherwise; whenever the level is raised the completed
\* goal's reward has been counted once more, and a reward once gained
\* stays gained.
C18_LevelFollowsDeliveries ==
    /\ hubLast.op = "none" => level = 1
    /\ level >= hubLast.levelBefore
    /\ Delivered =>
           /\ storedShapes[hubLast.arg] = Amount(OrZero(hubLast.storedBefore[hubLast.arg]) + 1)
           /\ \A h \in Shapes \ {hubLast.arg} : storedShapes[h] = hubLast.storedBefore[h]
           /\ level = hubLast.levelBefore +
                  (IF OrZero(storedShapes[hubLast.goalBefore.shape])
                          >= hubLast.goalBefore.required
                   THEN 1 ELSE 0)
    /\ level > hubLast.levelBefore =>
           gainedRewards[hubLast.goalBefore.reward]
               = hubLast.gainedBefore[hubLast.goalBefore.reward] + 1
    /\ \A r \in Rewards : hubLast.gainedBefore[r] > 0 => gainedRewards[r] > 0
C18_Witness ==
    /\ Delivered
    /\ hubLast.levelBefore = 2
    /\ level = 3
    /\ hubLast.arg # hubLast.goalBefore.shape
    /\ gainedRewards["reward_cutter"] = 1
    /\ gainedRewards["reward_painter"] = 1

(***************************************************************************)
(* GameLogic: claim C19.                                                   *)
(***************************************************************************)
PlaceTried == logicLast.op = "tryPlaceBuilding"
\* The entities that stood on the footprint when the call was made.
StoodBelow ==
    {logicLast.tilesBefore[t] : t \in RectTiles(logicLast.rect)} \ {NoEntity}

\* C19: a tryPlaceBuilding call returned true, and placed the building,
\* only if the building was unlocked and every tile of the footprint was
\* empty or held a replaceable entity, and then every replaceable entity
\* of the footprint was removed before the new one was placed; a call
\* that returned false left the map and the entities exactly as they were.
C19_PlacesOrLeavesUntouched ==
    /\ (PlaceTried /\ logicLast.returned) =>
           /\ logicLast.building.unlocked
           /\ \A uid \in StoodBelow : logicLast.entitiesBefore[uid].ReplaceableMapEntity
           /\ \A uid \in StoodBelow :
                  entities[uid] = Destroyed /\ \A t \in Tiles : tileContents[t] # uid
           /\ \A t \in RectTiles(logicLast.rect) : tileContents[t] = nextUid - 1
    /\ (PlaceTried /\ ~logicLast.returned) =>
           /\ tileContents = logicLast.tilesBefore
           /\ entities = logicLast.entitiesBefore


====
